---- MODULE Spec2Model ----
(***************************************************************************)
(* xsprite: keyboard presence reconciliation and the hotplug-driven init   *)
(* loop (src/src/init_keyboard.rs).                                        *)
(*                                                                         *)
(* The program state is the single task running reinit_loop: its position  *)
(* (pc), the locals that live across its steps, and the KnownSet           *)
(* (known_keyboards).  The environment is the display server's keyboard    *)
(* listing, the device manager's keyboard listing, the monitor socket's    *)
(* pending hotplug events and the child process running the init command.  *)
(***************************************************************************)
EXTENDS Integers, Sequences, FiniteSets, TLC

(***************************************************************************)
(* Bounds of the model.                                                    *)
(***************************************************************************)
\* events the monitor socket can hold unread
MaxQueue == 1
\* qualifying events emitted over a behaviour
MaxTriggers == 2
\* times the loop is woken by an ended stream
MaxEnds == 1

(***************************************************************************)
(* Input domains: two device nodes, two display-server candidates and two  *)
(* device-manager candidates.                                              *)
(***************************************************************************)
NodeA == "/dev/input/event3"
NodeB == "/dev/input/event4"
Nodes == {NodeA, NodeB}

\* XInputKeyboardInfo: name, xinput_id (u8)
XInputKeyboardInfo ==
    { [name |-> "Foo", xinput_id |-> 9],
      [name |-> "Bar", xinput_id |-> 12] }

\* UdevKeyboardInfo: vendor_id, product_id (u16): 046d:c52b and 04d9:0169
UdevKeyboardInfo ==
    { [vendor_id |-> 1133, product_id |-> 50475],
      [vendor_id |-> 1241, product_id |-> 361] }

\* the candidates each node can be listed with
XCandidates(n) == IF n = NodeA THEN XInputKeyboardInfo
                  ELSE {[name |-> "Bar", xinput_id |-> 12]}
UdevCandidates(n) == IF n = NodeA THEN UdevKeyboardInfo
                     ELSE {[vendor_id |-> 1241, product_id |-> 361]}

(***************************************************************************)
(* HashMap<String, V> as a function whose domain is the set of keys.       *)
(***************************************************************************)
EmptyMap == [n \in {} |-> 0]
Keys(m) == DOMAIN m
MapInsert(m, k, v) == [n \in (DOMAIN m) \cup {k} |-> IF n = k THEN v ELSE m[n]]
MapRemove(m, k) == [n \in (DOMAIN m) \ {k} |-> m[n]]
\* HashMap::retain on the keys
MapRetain(m, keep) == [n \in (DOMAIN m) \cap keep |-> m[n]]

\* every ordering of a finite set (HashMap iteration order is arbitrary)
Orderings(S) ==
    { s \in [1..Cardinality(S) -> S] : \A i, j \in 1..Cardinality(S) : i # j => s[i] # s[j] }

VARIABLES
    xserver,            \* display server: device_node -> XInputKeyboardInfo now listed
    udevdb,             \* device manager: device_node -> UdevKeyboardInfo now listed
    events,             \* monitor socket: hotplug events received and not yet read
    monitoring,         \* the monitor socket exists (monitor_udev_input was called)
    stream_ended,       \* the event stream has ended
    pc,                 \* position of the reinit_loop task
    known_keyboards,    \* KeyboardPresenceState.known_keyboards
    added_keyboards,    \* reinit_loop: the records of the batch not yet dispatched
    children,           \* init commands in flight (records they were spawned for)
    \* ---- history variables (observations, not program state) ----
    xinput_keyboards,   \* what get_xinput_keyboards returned to the last update()
    udev_keyboards,     \* what get_udev_keyboards returned to the last update()
    same_inputs,        \* the last update() saw the enumerations the one before it saw
    passes,             \* update() calls completed
    triggers,           \* qualifying events returned by events.next()
    ends,               \* None results returned by events.next()
    last_added,         \* device_nodes returned in added by the last update()
    inits,              \* device_node -> init_keyboard calls in the current presence run
    failed,             \* device_nodes of the current batch whose command failed
    forgotten,          \* device_nodes once known and missing from the last merge
    round,              \* progress through the merge rounds {A,B}, {A}, {A,B}
    owed,               \* device_nodes attached and announced by an Add event since
                        \* startup, for which init_keyboard was not called since
    unserved,           \* (followed in SpecWake) an Add or Remove event of a keyboard
                        \* reached the monitor socket and no update() pass has
                        \* started since
    \* ---- get_udev_keyboards, one call ----
    udev_list,          \* `list`: the devices scan_devices() returned
    udev_i,             \* index in `list` of the device the for loop takes next
    udev_found,         \* `keyboards`: the map built so far
    udev_pc,            \* "idle", "scan", "returned" or "panicked"
    \* ---- init_keyboard, one call ----
    cmd_keyboard,       \* `keyboard`: the record the command is built for
    cmd_args,           \* the arguments given to `cmd` so far
    cmd_pc,             \* "idle", "build" or "spawned"
    \* ---- xinput_get_string_property, one call ----
    xprop,              \* display server: the Device Node property of the device now
    xprop_reply,        \* `reply`
    xprop_result,       \* the String returned
    xprop_pc,           \* "idle", "first", "check", "decode", "returned" or "panicked"
    xprop_requests,     \* history: the (offset, length) of the reads issued
    xprop_first,        \* history: the reply to the first read
    \* ---- main and handle_signals ----
    config,             \* what load_config returned
    main_pc,            \* "start", "select" or "returned"
    signals,            \* SIGINTs delivered and not yet read by handle_signals
    interrupt_tx,       \* handle_signals: Some(sender) until it is used
    interrupt_rx,       \* the one-shot channel: "empty", or "sent"
    sigints,            \* history: SIGINTs delivered
    sends               \* history: values sent on the one-shot channel

udev_vars == << udev_list, udev_i, udev_found, udev_pc >>
\* the state of the functions and of main, which reinit_loop leaves alone
cmd_vars == << cmd_keyboard, cmd_args, cmd_pc >>
xprop_vars == << xprop, xprop_reply, xprop_result, xprop_pc, xprop_requests, xprop_first >>
main_vars == << config, main_pc, signals, interrupt_tx, interrupt_rx, sigints, sends >>
other_vars == << udev_vars, cmd_vars, xprop_vars, main_vars >>

vars == << xserver, udevdb, events, monitoring, stream_ended, pc,
           known_keyboards, added_keyboards, children,
           xinput_keyboards, udev_keyboards, same_inputs,
           passes, triggers, ends, last_added, inits, failed, forgotten, round, owed,
           unserved, other_vars >>

env_vars == << xserver, udevdb, events, stream_ended >>
task_vars == << pc, known_keyboards, added_keyboards, children >>
pass_vars == << xinput_keyboards, udev_keyboards, same_inputs, passes, last_added,
                forgotten, round >>
hist_vars == << pass_vars, triggers, ends, inits, failed, owed, unserved >>

(***************************************************************************)
(* Hotplug events as the monitor delivers them: Ok(event) with its type    *)
(* and the properties of its device that device_is_keyboard reads, or      *)
(* Err(e).                                                                 *)
(***************************************************************************)
UdevDevice(input_keyboard, input_key, devnode) ==
    [ID_INPUT_KEYBOARD |-> input_keyboard, ID_INPUT_KEY |-> input_key, devnode |-> devnode]
KeyboardDevice == UdevDevice("1", "1", TRUE)
MouseDevice == UdevDevice("none", "1", TRUE)
\* the parent input device of a keyboard: keyboard properties, no device node
InputParentDevice == UdevDevice("1", "1", FALSE)

OkEvent(type, device) == [ok |-> TRUE, event_type |-> type, device |-> device]
ErrEvent == [ok |-> FALSE]
AddKeyboard == OkEvent("Add", KeyboardDevice)
RemoveKeyboard == OkEvent("Remove", KeyboardDevice)
MonitorEvents ==
    { AddKeyboard, RemoveKeyboard,
      OkEvent("Change", KeyboardDevice),
      OkEvent("Add", MouseDevice),
      OkEvent("Add", InputParentDevice),
      ErrEvent }

\* the events the loop is to be woken by: a keyboard with a device node was
\* added or removed
KeyboardPlugEvent(event) ==
    /\ event.ok
    /\ event.event_type \in {"Add", "Remove"}
    /\ event.device = KeyboardDevice

\* device_is_keyboard
device_is_keyboard(device) ==
    LET input_keyboard == device.ID_INPUT_KEYBOARD = "1"
        input_key == device.ID_INPUT_KEY = "1"
        has_device_node == device.devnode
    IN  input_keyboard /\ input_key /\ has_device_node

\* mutant: Remove events are dropped
filter_keyboard_events_AddOnly(event) ==
    IF ~event.ok THEN FALSE
    ELSE IF event.event_type # "Add" THEN FALSE
    ELSE device_is_keyboard(event.device)

\* filter_keyboard_events: TRUE when the closure returns Some(event)
filter_keyboard_events(event) ==
    IF ~event.ok THEN FALSE
    ELSE IF event.event_type \notin {"Add", "Remove"} THEN FALSE
    ELSE device_is_keyboard(event.device)

\* qualifying events among the unread ones
RECURSIVE Qualifying(_)
Qualifying(q) ==
    IF q = << >> THEN 0
    ELSE (IF filter_keyboard_events(Head(q)) THEN 1 ELSE 0) + Qualifying(Tail(q))

(***************************************************************************)
(* get_udev_keyboards: one scan of the device manager's input devices.     *)
(* A string is a sequence of characters; Option<T> is a sequence of at     *)
(* most one value.                                                         *)
(***************************************************************************)
None == << >>
Some(v) == << v >>

\* Result<u16, ParseIntError>
Ok(v) == [ok |-> TRUE, value |-> v]
Err(kind) == [ok |-> FALSE, kind |-> kind]

\* the digits of radix 16
LowerHex == << "0", "1", "2", "3", "4", "5", "6", "7", "8", "9", "a", "b", "c", "d", "e", "f" >>
UpperHex == << "0", "1", "2", "3", "4", "5", "6", "7", "8", "9", "A", "B", "C", "D", "E", "F" >>

\* char::to_digit(16)
to_digit(c) ==
    IF \E i \in 1..16 : LowerHex[i] = c
    THEN Some((CHOOSE i \in 1..16 : LowerHex[i] = c) - 1)
    ELSE IF \E i \in 1..16 : UpperHex[i] = c
    THEN Some((CHOOSE i \in 1..16 : UpperHex[i] = c) - 1)
    ELSE None

\* the digit loop of u16::from_str_radix(_, 16): a checked multiply and add
\* for each character
RECURSIVE ParseDigits(_, _)
ParseDigits(digits, acc) ==
    IF digits = << >> THEN Ok(acc)
    ELSE LET d == to_digit(Head(digits))
         IN  IF d = None THEN Err("InvalidDigit")
             ELSE IF acc * 16 + d[1] > 2^16 - 1 THEN Err("PosOverflow")
             ELSE ParseDigits(Tail(digits), acc * 16 + d[1])

\* u16::from_str_radix(src, 16) (lines 104 and 108)
from_str_radix(src) ==
    IF src = << >> THEN Err("Empty")
    ELSE IF Len(src) = 1 /\ Head(src) \in {"+", "-"} THEN Err("InvalidDigit")
    ELSE IF Head(src) = "+" THEN ParseDigits(Tail(src), 0)
    ELSE ParseDigits(src, 0)

\* devices scan_devices() can return
MaxDevices == 2

\* a device of the input subsystem: the properties device_is_keyboard reads,
\* its device node and its two identifier properties
ScannedDevice(kind, node, vendor_id, model_id) ==
    [ ID_INPUT_KEYBOARD |-> kind.ID_INPUT_KEYBOARD,
      ID_INPUT_KEY |-> kind.ID_INPUT_KEY,
      devnode |-> kind.devnode,
      node |-> node,
      ID_VENDOR_ID |-> vendor_id,
      ID_MODEL_ID |-> model_id ]

\* ID_VENDOR_ID values: 046d, 04D9, zz, the empty string, 10000 (more than 16
\* bits), or no such property
VendorValues ==
    { None,
      Some(<< "0", "4", "6", "d" >>),
      Some(<< "0", "4", "D", "9" >>),
      Some(<< "z", "z" >>),
      Some(<< >>),
      Some(<< "1", "0", "0", "0", "0" >>) }

\* ID_MODEL_ID values: c52b, +169, 0x16, or no such property
ModelValues ==
    { None,
      Some(<< "c", "5", "2", "b" >>),
      Some(<< "+", "1", "6", "9" >>),
      Some(<< "0", "x", "1", "6" >>) }

ScannedDevices ==
    { ScannedDevice(kind, node, vendor_id, model_id) :
        kind \in {KeyboardDevice, MouseDevice}, node \in Nodes,
        vendor_id \in VendorValues, model_id \in ModelValues }

\* the lists scan_devices() can return
ScanLists == UNION { [1..len -> ScannedDevices] : len \in 0..MaxDevices }

\* the body of the for loop for one device (lines 96-117): `continue`, a
\* panic of unwrap(), or the entry inserted in `keyboards`
ScanStep(device) ==
    IF ~device_is_keyboard(device) THEN [do |-> "continue"]
    ELSE IF ~device.devnode THEN [do |-> "continue"]
    ELSE IF device.ID_VENDOR_ID = None THEN [do |-> "continue"]
    ELSE IF ~from_str_radix(device.ID_VENDOR_ID[1]).ok THEN [do |-> "panic"]
    ELSE IF device.ID_MODEL_ID = None THEN [do |-> "continue"]
    ELSE IF ~from_str_radix(device.ID_MODEL_ID[1]).ok THEN [do |-> "panic"]
    ELSE [ do |-> "insert",
           devnode |-> device.node,
           info |-> [ vendor_id |-> from_str_radix(device.ID_VENDOR_ID[1]).value,
                      product_id |-> from_str_radix(device.ID_MODEL_ID[1]).value ] ]

\* no call of get_udev_keyboards is being followed
UdevIdle ==
    /\ udev_list = << >>
    /\ udev_i = 0
    /\ udev_found = EmptyMap
    /\ udev_pc = "idle"

\* no call of init_keyboard is being followed
CmdIdle ==
    /\ cmd_keyboard = None
    /\ cmd_args = << >>
    /\ cmd_pc = "idle"

\* no call of xinput_get_string_property is being followed
XpropIdle ==
    /\ xprop = None
    /\ xprop_reply = None
    /\ xprop_result = None
    /\ xprop_pc = "idle"
    /\ xprop_requests = << >>
    /\ xprop_first = None

\* Result<Config, _> of load_config; Config has the one field init_keyboard
ConfigOk(init_keyboard) == [ok |-> TRUE, init_keyboard |-> init_keyboard]
ConfigErr == [ok |-> FALSE, init_keyboard |-> None]

\* main is suspended in select! with an init command configured, and no SIGINT
\* is delivered
MainRunning ==
    /\ config = ConfigOk(Some("init-keyboard"))
    /\ main_pc = "select"
    /\ signals = 0
    /\ interrupt_tx = Some("tx")
    /\ interrupt_rx = "empty"
    /\ sigints = 0
    /\ sends = 0

\* the functions are not being followed, and main runs the loop undisturbed
OthersIdle == UdevIdle /\ CmdIdle /\ XpropIdle /\ MainRunning

(***************************************************************************)
(* KeyboardPresenceState::update                                           *)
(***************************************************************************)
\* mutant: vendor and product taken from each other's field
KeyboardInfo_Swapped(device_node, xinput_kbd, udev_kbd) ==
    [ name |-> xinput_kbd.name,
      device_node |-> device_node,
      xinput_id |-> xinput_kbd.xinput_id,
      vendor_id |-> udev_kbd.product_id,
      product_id |-> udev_kbd.vendor_id ]

\* the KeyboardInfo built at lines 61-67
KeyboardInfo(device_node, xinput_kbd, udev_kbd) ==
    [ name |-> xinput_kbd.name,
      device_node |-> device_node,
      xinput_id |-> xinput_kbd.xinput_id,
      vendor_id |-> udev_kbd.vendor_id,
      product_id |-> udev_kbd.product_id ]

\* mutant: every display-server keyboard is kept, the device manager's listing
\* is not consulted for membership
Merged_AnyXinput(xinput_kbds, udev_kbds) ==
    [ n \in Keys(xinput_kbds) |->
        [ name |-> xinput_kbds[n].name,
          device_node |-> n,
          xinput_id |-> xinput_kbds[n].xinput_id,
          vendor_id |-> IF n \in Keys(udev_kbds) THEN udev_kbds[n].vendor_id ELSE 0,
          product_id |-> IF n \in Keys(udev_kbds) THEN udev_kbds[n].product_id ELSE 0 ] ]

\* `keyboards`: the join of the two enumerations on device_node (lines 58-70)
Merged(xinput_kbds, udev_kbds) ==
    [ n \in { k \in Keys(xinput_kbds) : k \in Keys(udev_kbds) } |->
        KeyboardInfo(n, xinput_kbds[n], udev_kbds[n]) ]

\* mutant: the contains_key test is dropped
AddedNodes_All(keyboards, known) == Keys(keyboards)

\* mutant: a keyboard is new when its device_node is not known or its record
\* differs from the known one
AddedNodes_ByRecord(keyboards, known) ==
    { n \in Keys(keyboards) : ~(n \in Keys(known) /\ known[n] = keyboards[n]) }

\* the device_nodes pushed to `added` (lines 76-81)
AddedNodes(keyboards, known) ==
    { n \in Keys(keyboards) : n \notin Keys(known) }

\* mutant: the added records are not inserted
KnownInserted_Not(keyboards, known) == known

\* mutant: every merged record is inserted, replacing the known one
KnownInserted_Refresh(keyboards, known) ==
    [ n \in Keys(known) \cup Keys(keyboards) |->
        IF n \in Keys(keyboards) THEN keyboards[n] ELSE known[n] ]

\* known_keyboards after the insert loop (lines 76-81)
KnownInserted(keyboards, known) ==
    [ n \in Keys(known) \cup AddedNodes(keyboards, known) |->
        IF n \in Keys(known) THEN known[n] ELSE keyboards[n] ]

\* mutant: nothing is dropped
KnownRetained_All(keyboards, known) == known

\* mutant: when a known keyboard has vanished, every known keyboard is dropped
KnownRetained_Clear(keyboards, known) ==
    IF Keys(known) \subseteq Keys(keyboards) THEN known ELSE EmptyMap

\* known_keyboards after retain (line 83)
KnownRetained(keyboards, known) ==
    MapRetain(known, Keys(keyboards))

\* known_keyboards when update() returns
KnownAfterUpdate(keyboards, known) ==
    KnownRetained(keyboards, KnownInserted(keyboards, known))

\* the Vec update() returns: the added records in some iteration order
AddedVecs(keyboards, known) ==
    { [i \in DOMAIN o |-> keyboards[o[i]]] : o \in Orderings(AddedNodes(keyboards, known)) }

\* device_nodes of a sequence of records
NodesOf(recs) == { recs[i].device_node : i \in DOMAIN recs }

NodesOfSet(recs) == { r.device_node : r \in recs }

\* mutant: the task waits for the next event whatever is left of the batch
AfterRecord_Wait(batch) == "wait"

\* the loop after the for loop over a batch: next record, or events.next().await
AfterRecord(batch) == IF batch = << >> THEN "wait" ELSE "dispatch"

\* the merge rounds R1 = {A,B}, R2 = {A}, R3 = {A,B} from an empty KnownSet: the
\* round reached by a pass that starts with `known` and merges `both`
NextRound(r, known, both) ==
    IF known = {} /\ both = {NodeA, NodeB} THEN 1
    ELSE IF r = 1 /\ both = {NodeA} THEN 2
    ELSE IF r = 2 /\ both = {NodeA, NodeB} THEN 3
    ELSE 0

\* a saturating count: 0, 1, "more than once"
Bump(c) == IF c < 2 THEN c + 1 ELSE 2

(***************************************************************************)
(* Initial state: main has called reinit_loop; nothing is subscribed yet.  *)
(* Keyboards may already be attached.                                      *)
(***************************************************************************)
XListings ==
    { m \in UNION { [S -> XInputKeyboardInfo] : S \in SUBSET Nodes } :
        \A n \in Keys(m) : m[n] \in XCandidates(n) }
UdevListings ==
    { m \in UNION { [S -> UdevKeyboardInfo] : S \in SUBSET Nodes } :
        \A n \in Keys(m) : m[n] \in UdevCandidates(n) }

\* the listings in which every keyboard has the first candidate of its node
XDefault(n) == CHOOSE v \in XCandidates(n) : v.name = "Bar"
UdevDefault(n) == CHOOSE v \in UdevCandidates(n) : v.vendor_id = 1241

InitTask ==
    /\ events = << >>
    /\ monitoring = FALSE
    /\ stream_ended = FALSE
    /\ pc = "start"
    /\ known_keyboards = EmptyMap
    /\ added_keyboards = << >>
    /\ children = {}
    /\ xinput_keyboards = EmptyMap
    /\ udev_keyboards = EmptyMap
    /\ same_inputs = FALSE
    /\ passes = 0
    /\ triggers = 0
    /\ ends = 0
    /\ last_added = {}
    /\ inits = [n \in Nodes |-> 0]
    /\ failed = {}
    /\ forgotten = {}
    /\ round = 0
    /\ owed = {}
    /\ unserved = FALSE

Init ==
    /\ xserver \in XListings
    /\ udevdb \in UdevListings
    /\ InitTask
    /\ OthersIdle

InitMonitor ==
    /\ xserver \in { m \in XListings : \A n \in Keys(m) : m[n] = XDefault(n) }
    /\ udevdb \in { m \in UdevListings : \A n \in Keys(m) : m[n] = UdevDefault(n) }
    /\ InitTask
    /\ OthersIdle

(***************************************************************************)
(* The reinit_loop task                                                    *)
(***************************************************************************)
\* lines 162-165: subscribe to the monitor, build the presence state
Subscribe ==
    /\ pc = "start"
    /\ monitoring' = TRUE
    /\ pc' = "update"
    /\ UNCHANGED << other_vars, env_vars, known_keyboards, added_keyboards, children, hist_vars >>

\* lines 50-86 and 167: update() enumerates both sources, merges, diffs against
\* known_keyboards and returns the added records
Update ==
    /\ pc = "update"
    /\ xinput_keyboards' = xserver
    /\ udev_keyboards' = udevdb
    /\ LET keyboards == Merged(xinput_keyboards', udev_keyboards')
       IN  /\ known_keyboards' = KnownAfterUpdate(keyboards, known_keyboards)
           /\ added_keyboards' \in AddedVecs(keyboards, known_keyboards)
           /\ last_added' = NodesOf(added_keyboards')
           /\ pc' = AfterRecord(added_keyboards')
    /\ LET both == Keys(xserver) \cap Keys(udevdb)
       IN  /\ inits' = [n \in Nodes |-> IF n \in both THEN inits[n] ELSE 0]
           /\ forgotten' = (forgotten \cup Keys(known_keyboards)) \ both
           /\ round' = NextRound(round, Keys(known_keyboards), both)
    /\ same_inputs' = (passes > 0 /\ xserver = xinput_keyboards /\ udevdb = udev_keyboards)
    /\ passes' = passes + 1
    /\ failed' = {}
    /\ unserved' = FALSE
    /\ UNCHANGED << other_vars, env_vars, monitoring, children, triggers, ends, owed >>

\* what cmd.status().await does first: the child is spawned, or spawning fails
SpawnResults == {"spawned", "spawn_error"}
\* the exit status of a child
ExitStatuses == {0, 1}

\* mutant: the child is spawned and not awaited
AfterSpawn_NoAwait(result, rest) == AfterRecord(rest)

\* the task after cmd.status() was called for the head of the batch (line 190):
\* suspended on the child, or, after a spawn error was logged (197-199), on to
\* the next record
AfterSpawn(result, rest) == IF result = "spawned" THEN "child" ELSE AfterRecord(rest)

\* mutant: a failure status ends the batch
AfterExit_Abort(status, rest) == IF status = 0 THEN AfterRecord(rest) ELSE "wait"

\* the task after the child exited with `status` (191-196): a failure is logged
AfterExit(status, rest) == AfterRecord(rest)

\* lines 168-169, 184-190: init_keyboard for the next record of the batch
InitKeyboard(result) ==
    /\ pc = "dispatch"
    /\ added_keyboards # << >>
    /\ LET keyboard == Head(added_keyboards)
           rest == Tail(added_keyboards)
       IN  /\ added_keyboards' = rest
           /\ children' = IF result = "spawned" THEN children \cup {keyboard} ELSE children
           /\ pc' = AfterSpawn(result, rest)
           /\ inits' = [inits EXCEPT ![keyboard.device_node] = Bump(@)]
           /\ owed' = owed \ {keyboard.device_node}
           /\ failed' = IF result = "spawned" THEN failed
                         ELSE failed \cup {keyboard.device_node}
    /\ UNCHANGED << other_vars, env_vars, monitoring, known_keyboards, pass_vars, triggers, ends,
                    unserved >>

\* lines 190-196: the child exits; the for loop goes on
CommandExit(status) ==
    /\ pc = "child"
    /\ children # {}
    /\ children' = {}
    /\ pc' = AfterExit(status, added_keyboards)
    /\ failed' = IF status = 0 THEN failed ELSE failed \cup NodesOfSet(children)
    /\ UNCHANGED << other_vars, env_vars, monitoring, known_keyboards, added_keyboards,
                    pass_vars, triggers, ends, inits, owed, unserved >>

\* line 172: events.next().await reads one event from the socket; the filter
\* drops it (the task stays suspended) or returns it
NextEvent ==
    /\ pc = "wait"
    /\ events # << >>
    /\ events' = Tail(events)
    /\ IF filter_keyboard_events(Head(events))
       THEN pc' = "update" /\ triggers' = triggers + 1
       ELSE pc' = "wait" /\ triggers' = triggers
    /\ UNCHANGED << other_vars, xserver, udevdb, stream_ended, monitoring, known_keyboards,
                    added_keyboards, children, pass_vars, ends, inits, failed, owed, unserved >>

\* lines 172-174: the stream has ended: next() is None, logged, the loop goes on
StreamNone ==
    /\ pc = "wait"
    /\ events = << >>
    /\ stream_ended
    /\ ends < MaxEnds
    /\ pc' = "update"
    /\ ends' = ends + 1
    /\ UNCHANGED << other_vars, env_vars, monitoring, known_keyboards, added_keyboards, children,
                    pass_vars, triggers, inits, failed, owed, unserved >>

\* the task while the event stream lasts
Loop ==
    \/ Subscribe
    \/ Update
    \/ \E result \in SpawnResults : InitKeyboard(result)
    \/ \E status \in ExitStatuses : CommandExit(status)
    \/ NextEvent

Task == Loop \/ StreamNone

(***************************************************************************)
(* The environment                                                         *)
(***************************************************************************)
\* "no longer listed", as the value of a listing change
Gone == [gone |-> TRUE]

\* the display server lists, relists or drops a keyboard
XserverChange(n, v) ==
    /\ v \in XCandidates(n) \cup {Gone}
    /\ IF v = Gone
       THEN n \in Keys(xserver) /\ xserver' = MapRemove(xserver, n)
       ELSE ~(n \in Keys(xserver) /\ xserver[n] = v) /\ xserver' = MapInsert(xserver, n, v)
    /\ UNCHANGED << other_vars, udevdb, events, stream_ended, monitoring, task_vars, hist_vars >>

\* the monitor socket can take one more event
CanEmit(event) ==
    /\ monitoring
    /\ ~stream_ended
    /\ Len(events) < MaxQueue
    /\ filter_keyboard_events(event) => triggers + Qualifying(events) < MaxTriggers

\* a keyboard is attached: the device manager lists it, and the kernel's Add
\* event reaches the monitor socket (notified) or does not (no socket yet, or
\* the event is lost)
UdevAdd(n, v, notified) ==
    /\ n \notin Keys(udevdb)
    /\ v \in UdevCandidates(n)
    /\ udevdb' = MapInsert(udevdb, n, v)
    /\ IF notified
       THEN /\ CanEmit(AddKeyboard)
            /\ events' = Append(events, AddKeyboard)
            /\ owed' = owed \cup {n}
       ELSE /\ events' = events
            /\ owed' = owed \ {n}
    /\ UNCHANGED << other_vars, xserver, stream_ended, monitoring, task_vars,
                    pass_vars, triggers, ends, inits, failed, unserved >>

\* a keyboard is detached
UdevRemove(n, notified) ==
    /\ n \in Keys(udevdb)
    /\ udevdb' = MapRemove(udevdb, n)
    /\ IF notified
       THEN /\ CanEmit(RemoveKeyboard)
            /\ events' = Append(events, RemoveKeyboard)
       ELSE events' = events
    /\ owed' = owed \ {n}
    /\ UNCHANGED << other_vars, xserver, stream_ended, monitoring, task_vars,
                    pass_vars, triggers, ends, inits, failed, unserved >>

\* an event about some other device, a duplicate, or a read error arrives
Emit(event) ==
    /\ CanEmit(event)
    /\ events' = Append(events, event)
    /\ UNCHANGED << other_vars, xserver, udevdb, stream_ended, monitoring, task_vars, hist_vars >>

\* the event stream ends
StreamEnd ==
    /\ monitoring
    /\ ~stream_ended
    /\ stream_ended' = TRUE
    /\ UNCHANGED << other_vars, xserver, udevdb, events, monitoring, task_vars, hist_vars >>

(***************************************************************************)
(* Spec: the task with keyboards coming, going and being relisted with any *)
(* candidate; the only events are those of attach and detach, and the      *)
(* event stream does not end.                                              *)
(***************************************************************************)
Environment ==
    \/ \E n \in Nodes : \E v \in XInputKeyboardInfo \cup {Gone} : XserverChange(n, v)
    \/ \E n \in Nodes : \E v \in UdevKeyboardInfo : \E notified \in BOOLEAN :
            UdevAdd(n, v, notified)
    \/ \E n \in Nodes : \E notified \in BOOLEAN : UdevRemove(n, notified)

Next == Loop \/ Environment

Spec == Init /\ [][Next]_vars

(***************************************************************************)
(* SpecMonitor: the task with every kind of event the monitor can deliver  *)
(* and a stream that can end; each keyboard is listed with one candidate.  *)
(***************************************************************************)
EnvironmentMonitor ==
    \/ \E n \in Nodes : \E v \in {XDefault(n), Gone} : XserverChange(n, v)
    \/ \E n \in Nodes : \E notified \in BOOLEAN : UdevAdd(n, UdevDefault(n), notified)
    \/ \E n \in Nodes : \E notified \in BOOLEAN : UdevRemove(n, notified)
    \/ \E event \in MonitorEvents : Emit(event)
    \/ StreamEnd

NextMonitor == Task \/ EnvironmentMonitor

SpecMonitor == InitMonitor /\ [][NextMonitor]_vars

\* the task is scheduled whenever it can run, and every child exits
FairSpecMonitor == SpecMonitor /\ WF_vars(Task)

(***************************************************************************)
(* SpecUdev: one call of get_udev_keyboards on any list of scanned         *)
(* devices.                                                                *)
(***************************************************************************)
\* the loop is not running
LoopIdle ==
    /\ xserver = EmptyMap
    /\ udevdb = EmptyMap
    /\ InitTask

loop_vars == << env_vars, monitoring, task_vars, hist_vars >>

InitUdev ==
    /\ LoopIdle
    /\ MainRunning
    /\ CmdIdle
    /\ XpropIdle
    /\ udev_list \in ScanLists
    /\ udev_i = 1
    /\ udev_found = EmptyMap
    /\ udev_pc = "scan"

\* lines 95-118: one iteration of `for device in list`
ScanDevice ==
    /\ udev_pc = "scan"
    /\ udev_i <= Len(udev_list)
    /\ LET step == ScanStep(udev_list[udev_i])
       IN  /\ udev_pc' = IF step.do = "panic" THEN "panicked" ELSE "scan"
           /\ udev_found' = IF step.do = "insert"
                            THEN MapInsert(udev_found, step.devnode, step.info)
                            ELSE udev_found
    /\ udev_i' = udev_i + 1
    /\ UNCHANGED << loop_vars, main_vars, cmd_vars, xprop_vars, udev_list >>

\* line 120: the list is exhausted, `keyboards` is returned
ScanReturn ==
    /\ udev_pc = "scan"
    /\ udev_i > Len(udev_list)
    /\ udev_pc' = "returned"
    /\ UNCHANGED << loop_vars, main_vars, cmd_vars, xprop_vars, udev_list, udev_i, udev_found >>

NextUdev == ScanDevice \/ ScanReturn

SpecUdev == InitUdev /\ [][NextUdev]_vars

(***************************************************************************)
(* SpecCommand: one call of init_keyboard, up to the spawn, for any        *)
(* record.                                                                 *)
(***************************************************************************)
\* u8::to_string: the decimal digits, most significant first
RECURSIVE to_string(_)
to_string(n) ==
    IF n < 10 THEN << LowerHex[n + 1] >>
    ELSE to_string(n \div 10) \o << LowerHex[(n % 10) + 1] >>

\* {:x}: the lower-case hexadecimal digits, most significant first
RECURSIVE LowerHexDigits(_)
LowerHexDigits(n) ==
    IF n < 16 THEN << LowerHex[n + 1] >>
    ELSE LowerHexDigits(n \div 16) \o << LowerHex[(n % 16) + 1] >>

\* width 4 with fill 0: zeros in front up to four characters, nothing cut
RECURSIVE ZeroPad4(_)
ZeroPad4(str) == IF Len(str) < 4 THEN ZeroPad4(<< "0" >> \o str) ELSE str

\* mutant: {:x}, no width
format_04x_NoPad(n) == LowerHexDigits(n)

\* {:04x}
format_04x(n) == ZeroPad4(LowerHexDigits(n))

\* format!("{:04x}:{:04x}", vendor_id, product_id) (line 188)
format_ids(vendor_id, product_id) ==
    format_04x(vendor_id) \o << ":" >> \o format_04x(product_id)

\* the argument the i-th cmd.arg call adds (lines 185-188)
CommandArg(keyboard, i) ==
    CASE i = 1 -> keyboard.name
      [] i = 2 -> keyboard.device_node
      [] i = 3 -> to_string(keyboard.xinput_id)
      [] i = 4 -> format_ids(keyboard.vendor_id, keyboard.product_id)

\* records init_keyboard can be called with: xinput_id is a u8, vendor_id and
\* product_id are u16
CommandKeyboards ==
    { KeyboardInfo(n, [name |-> "Foo", xinput_id |-> xinput_id],
                      [vendor_id |-> vendor_id, product_id |-> product_id]) :
        n \in Nodes,
        xinput_id \in {0, 9, 10, 12, 100, 255},
        vendor_id \in {0, 10, 1133, 4096, 43981, 65535},
        product_id \in {0, 255, 361, 50475, 65535} }

InitCommand ==
    /\ LoopIdle
    /\ MainRunning
    /\ UdevIdle
    /\ XpropIdle
    /\ cmd_keyboard \in { Some(keyboard) : keyboard \in CommandKeyboards }
    /\ cmd_args = << >>
    /\ cmd_pc = "build"

\* lines 184-188: Command::new and the next cmd.arg
CmdArg ==
    /\ cmd_pc = "build"
    /\ Len(cmd_args) < 4
    /\ cmd_args' = Append(cmd_args, CommandArg(cmd_keyboard[1], Len(cmd_args) + 1))
    /\ UNCHANGED << loop_vars, main_vars, udev_vars, xprop_vars, cmd_keyboard, cmd_pc >>

\* line 190: cmd.status() spawns the command with the arguments given
CmdStatus ==
    /\ cmd_pc = "build"
    /\ Len(cmd_args) = 4
    /\ cmd_pc' = "spawned"
    /\ UNCHANGED << loop_vars, main_vars, udev_vars, xprop_vars, cmd_keyboard, cmd_args >>

NextCommand == CmdArg \/ CmdStatus

SpecCommand == InitCommand /\ [][NextCommand]_vars

(***************************************************************************)
(* SpecProperty: one call of xinput_get_string_property against a display  *)
(* server whose Device Node property is any of a set of properties and can *)
(* change between the two reads.  The bytes of a value are not spelled     *)
(* out: a piece of data is "the first `bytes` bytes of property `of`".     *)
(***************************************************************************)
INITIAL_BUFFER == 256

\* a property of a device: type, format (bits per item), size in bytes, and
\* whether its bytes are valid UTF-8
Property(type, format, size, utf8) ==
    [type |-> type, format |-> format, size |-> size, utf8 |-> utf8]
\* the device has no such property
Absent == Property("None", 0, 0, TRUE)

Properties ==
    { Absent,
      Property("STRING", 8, 0, TRUE),
      Property("STRING", 8, 18, TRUE),
      Property("STRING", 8, 18, FALSE),
      Property("STRING", 8, 1024, TRUE),
      Property("STRING", 8, 1025, TRUE),
      Property("STRING", 8, 1030, FALSE),
      Property("STRING", 8, 2048, TRUE),
      Property("STRING", 32, 8, TRUE),
      Property("STRING", 16, 2048, TRUE),
      Property("UTF8_STRING", 8, 18, TRUE),
      Property("INTEGER", 32, 4, TRUE),
      Property("INTEGER", 8, 2000, TRUE) }

\* data: the first `bytes` bytes of property `of`; all empty data are equal
Data(of, bytes) == IF bytes = 0 THEN [of |-> Absent, bytes |-> 0]
                   ELSE [of |-> of, bytes |-> bytes]
\* String::new()
EmptyString == Data(Absent, 0)

Min(a, b) == IF a <= b THEN a ELSE b

\* the server's reply to GetDeviceProperty(property, type, offset, length,
\* delete = false) read at offset 0: `length` counts 4-byte units in the
\* request and in the reply; a property of another type is reported with its
\* size in bytes_after and no data
GetDevicePropertyReply(prop, type, length) ==
    IF prop = Absent
    THEN [ length |-> 0, bytes_after |-> 0, num_items |-> 0, format |-> 0,
           items |-> [format |-> 0, data |-> Data(prop, 0)] ]
    ELSE IF prop.type # type
    THEN [ length |-> 0, bytes_after |-> prop.size, num_items |-> 0, format |-> prop.format,
           items |-> [format |-> prop.format, data |-> Data(prop, 0)] ]
    ELSE LET bytes == Min(prop.size, 4 * length)
         IN  [ length |-> (bytes + 3) \div 4,
               bytes_after |-> prop.size - bytes,
               num_items |-> bytes \div (prop.format \div 8),
               format |-> prop.format,
               items |-> [format |-> prop.format, data |-> Data(prop, bytes)] ]

\* mutant: the second read asks for the bytes that remained only
needed_length_Rest(reply) == reply.bytes_after

\* line 265
needed_length(reply) == reply.length + reply.bytes_after

\* lines 277-282: the String of a reply, or a panic
Decoded(reply) ==
    IF reply.items.format = 8
    THEN IF reply.items.data.of.utf8 THEN Ok(reply.items.data)
         ELSE Err("device node is not valid utf8")
    ELSE Err("device node is not a string")

InitProperty ==
    /\ LoopIdle
    /\ MainRunning
    /\ UdevIdle
    /\ CmdIdle
    /\ xprop \in { Some(prop) : prop \in Properties }
    /\ xprop_reply = None
    /\ xprop_result = None
    /\ xprop_pc = "first"
    /\ xprop_requests = << >>
    /\ xprop_first = None

\* lines 252-259: the first read, offset 0, length INITIAL_BUFFER
FirstRead ==
    /\ xprop_pc = "first"
    /\ xprop_reply' = Some(GetDevicePropertyReply(xprop[1], "STRING", INITIAL_BUFFER))
    /\ xprop_first' = xprop_reply'
    /\ xprop_requests' = << [offset |-> 0, length |-> INITIAL_BUFFER] >>
    /\ xprop_pc' = "check"
    /\ UNCHANGED << loop_vars, main_vars, udev_vars, cmd_vars, xprop, xprop_result >>

\* the property is set anew, or deleted, between the two reads
PropertyChange(prop) ==
    /\ xprop_pc = "check"
    /\ xprop # Some(prop)
    /\ xprop' = Some(prop)
    /\ UNCHANGED << loop_vars, main_vars, udev_vars, cmd_vars, xprop_reply, xprop_result, xprop_pc,
                    xprop_requests, xprop_first >>

\* lines 261-276: nothing was returned: the empty String; or bytes remain: the
\* second read, offset 0, length needed_length; or the first reply is kept
CheckReply ==
    /\ xprop_pc = "check"
    /\ LET reply == xprop_reply[1]
       IN  IF reply.length = 0
           THEN /\ xprop_result' = Some(EmptyString)
                /\ xprop_pc' = "returned"
                /\ UNCHANGED << xprop_reply, xprop_requests >>
           ELSE IF reply.bytes_after # 0
           THEN /\ xprop_reply' =
                    Some(GetDevicePropertyReply(xprop[1], "STRING", needed_length(reply)))
                /\ xprop_requests' =
                    Append(xprop_requests, [offset |-> 0, length |-> needed_length(reply)])
                /\ xprop_pc' = "decode"
                /\ UNCHANGED xprop_result
           ELSE /\ xprop_pc' = "decode"
                /\ UNCHANGED << xprop_reply, xprop_requests, xprop_result >>
    /\ UNCHANGED << loop_vars, main_vars, udev_vars, cmd_vars, xprop, xprop_first >>

\* lines 277-282: the items as a String
Decode ==
    /\ xprop_pc = "decode"
    /\ LET decoded == Decoded(xprop_reply[1])
       IN  IF decoded.ok
           THEN xprop_result' = Some(decoded.value) /\ xprop_pc' = "returned"
           ELSE xprop_result' = None /\ xprop_pc' = "panicked"
    /\ UNCHANGED << loop_vars, main_vars, udev_vars, cmd_vars, xprop, xprop_reply, xprop_requests,
                    xprop_first >>

NextProperty ==
    \/ FirstRead
    \/ \E prop \in Properties : PropertyChange(prop)
    \/ CheckReply
    \/ Decode

SpecProperty == InitProperty /\ [][NextProperty]_vars

(***************************************************************************)
(* SpecRemoval: the task while keyboards are detached, each detach         *)
(* announced by its Remove event; nothing is attached or relisted.         *)
(***************************************************************************)
NextRemoval == Loop \/ \E n \in Nodes : UdevRemove(n, TRUE)

SpecRemoval == Init /\ [][NextRemoval]_vars

(***************************************************************************)
(* SpecMain: main, from load_config to its return, with handle_signals,    *)
(* SIGINTs, and the reinit_loop task polled by select!.  The keyboards     *)
(* attached at startup stay; Add and Remove events arrive.                 *)
(***************************************************************************)
\* SIGINTs delivered over a behaviour
MaxSigints == 2

Configs == { ConfigErr, ConfigOk(None), ConfigOk(Some("init-keyboard")) }

InitMain ==
    /\ xserver \in { m \in XListings : \A n \in Keys(m) : m[n] = XDefault(n) }
    /\ udevdb \in { m \in UdevListings : \A n \in Keys(m) : m[n] = UdevDefault(n) }
    /\ InitTask
    /\ UdevIdle
    /\ CmdIdle
    /\ XpropIdle
    /\ config \in Configs
    /\ main_pc = "start"
    /\ signals = 0
    /\ interrupt_tx = None
    /\ interrupt_rx = "empty"
    /\ sigints = 0
    /\ sends = 0

no_main_vars == << loop_vars, udev_vars, cmd_vars, xprop_vars >>

\* main.rs lines 15-21: load_config failed, main returns
ConfigError ==
    /\ main_pc = "start"
    /\ ~config.ok
    /\ main_pc' = "returned"
    /\ UNCHANGED << no_main_vars, config, signals, interrupt_tx, interrupt_rx, sigints, sends >>

\* main.rs lines 15-36: the signal stream, the one-shot channel and the three
\* futures of select! are built; none of them has been polled
Setup ==
    /\ main_pc = "start"
    /\ config.ok
    /\ interrupt_tx' = Some("tx")
    /\ main_pc' = "select"
    /\ UNCHANGED << no_main_vars, config, signals, interrupt_rx, sigints, sends >>

\* mutant: with no init command the task never completes
init_keyboard_task_Pending(cfg) == FALSE

\* main.rs lines 32-36: init_keyboard_task is complete when polled: it is
\* future::ready(()) when no init command is configured, and reinit_loop,
\* which does not return, when one is
init_keyboard_task_ready(cfg) == cfg.init_keyboard = None

\* main.rs lines 33, 39-45: select! polls init_keyboard_task, which runs
\* reinit_loop up to its next suspension
PollLoop ==
    /\ main_pc = "select"
    /\ config.init_keyboard # None
    /\ Loop

\* the part of a poll that is bound to happen: reinit_loop runs on from where
\* it is, neither suspended nor waiting for its first poll
RunLoop ==
    /\ main_pc = "select"
    /\ config.init_keyboard # None
    /\ (Update \/ \E result \in SpawnResults : InitKeyboard(result))

\* select! polls its futures one after the other: another branch is looked at
\* only while reinit_loop is suspended in an await, or was not polled yet
BetweenPolls == pc \in {"start", "wait", "child"}

\* main.rs line 43: init_keyboard_task completed, main returns
SelectTaskDone ==
    /\ main_pc = "select"
    /\ BetweenPolls
    /\ init_keyboard_task_ready(config)
    /\ main_pc' = "returned"
    /\ UNCHANGED << no_main_vars, config, signals, interrupt_tx, interrupt_rx, sigints, sends >>

\* the process is sent SIGINT (the handler is registered at line 23)
Sigint ==
    /\ main_pc = "select"
    /\ sigints < MaxSigints
    /\ signals' = signals + 1
    /\ sigints' = sigints + 1
    /\ UNCHANGED << no_main_vars, config, main_pc, interrupt_tx, interrupt_rx, sends >>

\* mutant: the sender is kept after it was used
TxAfterSend_Keep(tx) == tx

\* main.rs line 55: interrupt_tx = None
TxAfterSend(tx) == None

\* main.rs lines 44, 48-61: select! polls signal_handler_task, which reads one
\* SIGINT and sends on the channel if it still has the sender
HandleSignal ==
    /\ main_pc = "select"
    /\ BetweenPolls
    /\ signals > 0
    /\ signals' = signals - 1
    /\ IF interrupt_tx # None
       THEN /\ interrupt_rx' = "sent"
            /\ sends' = sends + 1
            /\ interrupt_tx' = TxAfterSend(interrupt_tx)
       ELSE UNCHANGED << interrupt_rx, sends, interrupt_tx >>
    /\ UNCHANGED << no_main_vars, config, main_pc, sigints >>

\* main.rs lines 40-42: interrupt_rx completed, main returns
SelectInterrupt ==
    /\ main_pc = "select"
    /\ BetweenPolls
    /\ interrupt_rx = "sent"
    /\ main_pc' = "returned"
    /\ UNCHANGED << no_main_vars, config, signals, interrupt_tx, interrupt_rx, sigints, sends >>

\* an Add or a Remove event of a keyboard reaches the monitor socket of the
\* running process
Hotplug ==
    /\ main_pc = "select"
    /\ \E event \in {AddKeyboard, RemoveKeyboard} : Emit(event)

\* the steps of main and of the signal handler
Main == ConfigError \/ Setup \/ SelectTaskDone \/ HandleSignal \/ SelectInterrupt

NextMain == Main \/ PollLoop \/ Sigint \/ Hotplug

SpecMain == InitMain /\ [][NextMain]_vars

\* main is scheduled whenever it can take a step of its own, and a poll of
\* reinit_loop runs to its next await; nothing is assumed of the init commands
\* (a child need not exit) or of the events
FairSpecMain == SpecMain /\ WF_vars(Main) /\ WF_vars(RunLoop)

(***************************************************************************)
(* SpecWake: the task with the keyboards attached at startup and every     *)
(* kind of event; an Add or Remove event of a keyboard is remembered       *)
(* (unserved) from the moment it reaches the monitor socket until an       *)
(* update() pass starts.                                                   *)
(***************************************************************************)
\* an Add or Remove event of a keyboard reaches the monitor socket
Plug(event) ==
    /\ KeyboardPlugEvent(event)
    /\ CanEmit(event)
    /\ events' = Append(events, event)
    /\ unserved' = TRUE
    /\ UNCHANGED << other_vars, xserver, udevdb, stream_ended, monitoring, task_vars,
                    pass_vars, triggers, ends, inits, failed, owed >>

\* any other event reaches it
OtherEvent(event) ==
    /\ ~KeyboardPlugEvent(event)
    /\ Emit(event)

NextWake ==
    \/ Loop
    \/ \E event \in MonitorEvents : Plug(event)
    \/ \E event \in MonitorEvents : OtherEvent(event)

SpecWake == InitMonitor /\ [][NextWake]_vars

\* the task is scheduled whenever it can run, and every child exits
FairSpecWake == SpecWake /\ WF_vars(Loop)

(***************************************************************************)
(* Properties                                                              *)
(***************************************************************************)
\* device_nodes both enumerations of the last update() reported
SeenInBoth == Keys(xinput_keyboards) \cap Keys(udev_keyboards)

\* device_nodes listed by both sources now
InBoth(n) == n \in Keys(xserver) /\ n \in Keys(udevdb)

\* the step is an update() pass
IsPass == passes' # passes

\* the step calls init_keyboard for device_node n
IsInit(n) == inits'[n] # inits[n] /\ ~IsPass

\* the batch of the last pass is finished
BatchDone == passes > 0 /\ pc \in {"wait", "update"}

\* C1 -- At-most-once dispatch.  init_keyboard is called for a device_node only
\* in a pass whose merge holds the node while KnownSet, before the pass, did
\* not: the nodes a pass returns are exactly those listed by both sources and not
\* known, and only returned nodes are dispatched.  Within a run of consecutive
\* passes that all merge the node, the command is spawned for it exactly once:
\* never twice, and once when the batch of a pass is finished.
C1_AtMostOnceDispatch ==
    [][ /\ IsPass => last_added' = (Keys(xserver) \cap Keys(udevdb)) \ Keys(known_keyboards)
        /\ \A n \in Nodes :
            /\ IsInit(n) => n \in last_added /\ inits[n] = 0
            /\ inits'[n] <= 1
            /\ BatchDone' /\ n \in SeenInBoth' => inits'[n] = 1 ]_vars

\* a keyboard merged by two passes in a row, dispatched in the first of them only
C1_Witness ==
    /\ passes >= 2
    /\ pc = "wait"
    /\ NodeA \in SeenInBoth
    /\ NodeA \notin last_added
    /\ inits[NodeA] = 1

\* the task is suspended in events.next() and the socket holds nothing to read
Suspended == pc = "wait" /\ events = << >> /\ ~stream_ended

\* C2 -- Eventual dispatch.  A keyboard attached after startup whose Add event
\* reached the monitor, and which stays listed by both sources, eventually has
\* init_keyboard called for it, whether it became visible in the display
\* server's listing before or after the event.  As a property of states: the
\* task is never suspended, with nothing left to wake it, while such a keyboard
\* is listed by both sources and init_keyboard was not called for it.
C2_EventualDispatch ==
    \A n \in Nodes : Suspended /\ n \in owed => ~InBoth(n)

\* C2 as a property of behaviours, for FairSpecMonitor.  (While the stream
\* lasts: an ended stream wakes the loop by itself.)
C2_Liveness ==
    \A n \in Nodes :
        (n \in owed /\ InBoth(n) /\ ~stream_ended)
            ~> (n \notin owed \/ ~InBoth(n) \/ stream_ended)

\* C3 -- Idempotence of update().  A pass that sees the two enumeration results
\* the pass before it saw returns no added record and leaves KnownSet as the
\* pass before it left it.
C3_Idempotence ==
    [][ IsPass /\ passes > 0 /\ xserver = xinput_keyboards /\ udevdb = udev_keyboards
          => /\ added_keyboards' = << >>
             /\ last_added' = {}
             /\ known_keyboards' = known_keyboards ]_vars

\* two passes in a row saw the same listings, with a keyboard in them
C3_Witness ==
    /\ same_inputs
    /\ passes >= 2
    /\ NodeA \in Keys(known_keyboards)

\* C4 -- Forget-and-reappear.  A device_node that was known, was missing from
\* the merge of a later pass and is merged again is returned in added by the
\* pass that merges it again; the merge rounds {A,B}, {A}, {A,B} from an empty
\* KnownSet return {A,B}, {}, {B}.
C4_ForgetAndReappear ==
    [][ IsPass
          => /\ \A n \in forgotten : InBoth(n) => n \in last_added'
             /\ round' = 1 => last_added' = {NodeA, NodeB}
             /\ round' = 2 => last_added' = {}
             /\ round' = 3 => last_added' = {NodeB} ]_vars

\* the third of the rounds {A,B}, {A}, {A,B} has been merged
C4_Witness ==
    /\ round = 3
    /\ passes >= 3

\* C5 -- Set-intersection correctness.  A device_node that only one of the two
\* enumerations of a pass reported is not in the merged map, not in the records
\* the pass returned and not in KnownSet after the pass.
C5_SetIntersection ==
    passes > 0 =>
        \A n \in Nodes :
            (n \in Keys(xinput_keyboards)) # (n \in Keys(udev_keyboards))
                => /\ n \notin Keys(Merged(xinput_keyboards, udev_keyboards))
                   /\ n \notin last_added
                   /\ n \notin NodesOf(added_keyboards)
                   /\ n \notin Keys(known_keyboards)

\* a pass saw one keyboard in the display server's listing only, another in both
C5_Witness ==
    /\ passes > 0
    /\ NodeA \in Keys(xinput_keyboards)
    /\ NodeA \notin Keys(udev_keyboards)
    /\ NodeB \in SeenInBoth
    /\ NodeB \in last_added

\* the record a pass builds for device_node n
BuiltRecord(n, xinput_kbds, udev_kbds) ==
    [ name |-> xinput_kbds[n].name,
      device_node |-> n,
      xinput_id |-> xinput_kbds[n].xinput_id,
      vendor_id |-> udev_kbds[n].vendor_id,
      product_id |-> udev_kbds[n].product_id ]

\* C6 (as claimed) -- Full replacement of KnownSet.  After every pass KnownSet
\* is the merged map of that pass: the merged keys, each with the record built
\* from that pass's enumeration results, also for keys known before the pass.
C6_FullReplacement ==
    passes > 0 =>
        known_keyboards =
            [ n \in SeenInBoth |-> BuiltRecord(n, xinput_keyboards, udev_keyboards) ]

\* C6 (amended) -- After every pass KnownSet has exactly the merged keys of
\* that pass; a key that was not known before the pass has the record built
\* from that pass's enumeration results, and a key that was known keeps the
\* record it had.
C6_KeysReplaced ==
    [][ IsPass
          => /\ Keys(known_keyboards') = Keys(xserver) \cap Keys(udevdb)
             /\ \A n \in Keys(known_keyboards') :
                    known_keyboards'[n] =
                        IF n \in Keys(known_keyboards) THEN known_keyboards[n]
                        ELSE BuiltRecord(n, xserver, udevdb) ]_vars

\* a keyboard known across two passes whose listing changed between them
C6_Witness ==
    /\ passes >= 2
    /\ NodeA \in Keys(known_keyboards)
    /\ NodeA \in SeenInBoth
    /\ NodeA \notin last_added
    /\ known_keyboards[NodeA] # BuiltRecord(NodeA, xinput_keyboards, udev_keyboards)

\* C7 -- Node-keyed merge.  Every record returned in added is for a
\* device_node both enumerations of the pass reported; its name and xinput_id
\* are those of the display server's candidate for that node, its vendor_id and
\* product_id those of the device manager's, its device_node the join key.
C7_NodeKeyedMerge ==
    /\ passes > 0 => last_added \subseteq SeenInBoth
    /\ \A i \in DOMAIN added_keyboards :
        LET keyboard == added_keyboards[i]
            n == keyboard.device_node
        IN  /\ n \in SeenInBoth
            /\ n \in last_added
            /\ keyboard.name = xinput_keyboards[n].name
            /\ keyboard.xinput_id = xinput_keyboards[n].xinput_id
            /\ keyboard.vendor_id = udev_keyboards[n].vendor_id
            /\ keyboard.product_id = udev_keyboards[n].product_id

\* a returned record that combines one candidate of each source
C7_Witness ==
    \E i \in DOMAIN added_keyboards :
        /\ added_keyboards[i].device_node = NodeA
        /\ added_keyboards[i].name = "Foo"
        /\ added_keyboards[i].xinput_id = 9
        /\ added_keyboards[i].vendor_id = 1241
        /\ added_keyboards[i].product_id = 361

\* C8 -- Event-to-pass correspondence.  Every qualifying event the task reads
\* causes exactly one pass, and nothing else does: once n qualifying events
\* have been read the loop has performed n+1 passes, the last of them under way
\* or complete; while the n-th event's pass has not started yet, n passes.
C8_EventToPass ==
    /\ pc = "start" => passes = 0 /\ triggers = 0
    /\ pc = "update" => passes = triggers
    /\ pc \in {"dispatch", "child", "wait"} => passes = triggers + 1

\* what holds of the code: each value events.next() returns -- a qualifying
\* event, or None once the stream has ended -- starts one pass
PassesPerWakeup ==
    /\ pc = "start" => passes = 0 /\ triggers + ends = 0
    /\ pc = "update" => passes = triggers + ends
    /\ pc \in {"dispatch", "child", "wait"} => passes = triggers + ends + 1

\* C9 -- Sequential, non-overlapping operation.  At most one init command is
\* in flight, and the task is suspended on it; a command is spawned only when
\* none is in flight; no pass starts or ends with a command in flight; and
\* KnownSet changes in update() only.
C9_Sequential ==
    [][ /\ Cardinality(children') <= 1
        /\ children' # {} => pc' = "child"
        /\ ~(children' \subseteq children) => children = {}
        /\ IsPass => children = {} /\ children' = {}
        /\ known_keyboards' # known_keyboards => IsPass ]_vars

\* a command is in flight while another record of the batch waits its turn
C9_Witness ==
    /\ pc = "child"
    /\ Cardinality(children) = 1
    /\ added_keyboards # << >>

\* the step is a dispatch that fails: a spawn error, or a failure exit status
IsFailure == failed' # failed /\ ~IsPass

\* C10 -- Dispatch failure is non-fatal.  When a command fails to spawn or
\* exits with a failure status, the task goes on to the next record of the
\* batch, or to wait for a trigger when there is none; no record of the batch
\* is dropped, so that every returned record has been dispatched when the task
\* waits; KnownSet is as update() left it and holds the failed keyboard.
C10_FailureNonFatal ==
    [][ /\ IsFailure
          => /\ known_keyboards' = known_keyboards
             /\ failed' \subseteq Keys(known_keyboards')
             /\ added_keyboards' = added_keyboards
                    \/ added_keyboards' = Tail(added_keyboards)
             /\ pc' = IF added_keyboards' = << >> THEN "wait" ELSE "dispatch"
        /\ pc' = "wait"
          => /\ added_keyboards' = << >>
             /\ \A n \in last_added' : inits'[n] = 1 ]_vars

\* the first command of a batch of two failed, the second was dispatched and
\* the task waits for the next trigger
C10_Witness ==
    /\ pc = "wait"
    /\ last_added = {NodeA, NodeB}
    /\ failed = {NodeA}
    /\ inits[NodeB] = 1
    /\ NodeA \in Keys(known_keyboards)

\* the device has what get_udev_keyboards needs: it passes the keyboard
\* heuristic and both identifier properties are there and parse
ValidDevice(device) ==
    /\ device_is_keyboard(device)
    /\ device.ID_VENDOR_ID # None
    /\ device.ID_MODEL_ID # None
    /\ from_str_radix(device.ID_VENDOR_ID[1]).ok
    /\ from_str_radix(device.ID_MODEL_ID[1]).ok

\* the map of the valid devices of a list; of two valid devices with one
\* device node the later one counts
ValidKeyboards(list) ==
    LET valid == { i \in DOMAIN list : ValidDevice(list[i]) }
        last(n) == CHOOSE i \in valid :
                      /\ list[i].node = n
                      /\ \A j \in valid : list[j].node = n => j <= i
    IN  [ n \in { list[i].node : i \in valid } |->
            [ vendor_id |-> from_str_radix(list[last(n)].ID_VENDOR_ID[1]).value,
              product_id |-> from_str_radix(list[last(n)].ID_MODEL_ID[1]).value ] ]

\* C11 -- Device-manager per-device skip.  A scan never aborts: a device that
\* passes the keyboard heuristic and lacks ID_VENDOR_ID or ID_MODEL_ID, or has
\* one that does not parse as 16-bit hexadecimal, is left out, and the call
\* returns the map of every valid device of the list.
C11_PerDeviceSkip ==
    /\ udev_pc # "panicked"
    /\ udev_pc = "returned" => udev_found = ValidKeyboards(udev_list)

\* what holds of the code: a call that returns has returned the valid devices
\* (a missing property is skipped), and a call panics at the first keyboard
\* whose vendor id, or model id when the vendor id parsed, is there and does
\* not parse
C11_SkipOrPanic ==
    /\ udev_pc = "returned" => udev_found = ValidKeyboards(udev_list)
    /\ udev_pc = "panicked" => ScanStep(udev_list[udev_i - 1]).do = "panic"
    /\ udev_pc = "scan" => \A i \in 1..(udev_i - 1) : ScanStep(udev_list[i]).do # "panic"

\* C12 -- Notification-stream termination.  When events.next() returns None the
\* loop does not return: it goes on waiting for a trigger.  Once a None has
\* been read the task is still in the loop, a pass is started by a qualifying
\* event only (as many passes as events read when one is due, one more when
\* the task dispatches or waits), and KnownSet and the batch are as the last
\* pass left them while the task waits.
C12_StreamTermination ==
    ends > 0 =>
        /\ pc \in {"update", "dispatch", "child", "wait"}
        /\ pc = "update" => passes = triggers
        /\ pc \in {"dispatch", "child", "wait"} => passes = triggers + 1
        /\ pc = "wait" => added_keyboards = << >> /\ Keys(known_keyboards) = SeenInBoth

\* what holds of the code: the step that reads None changes neither KnownSet
\* nor the batch, spawns nothing and starts a pass at once; after it, as before
\* it, init_keyboard is called only for a device_node the last pass returned
C12_KeepsLooping ==
    [][ /\ ends' # ends
          => /\ pc' = "update"
             /\ known_keyboards' = known_keyboards
             /\ added_keyboards' = added_keyboards
             /\ children' = children
             /\ inits' = inits
        /\ \A n \in Nodes : IsInit(n) => n \in last_added ]_vars

\* the number a string of decimal digits stands for (digits only)
RECURSIVE DecimalValue(_)
DecimalValue(str) ==
    IF str = << >> THEN 0
    ELSE 10 * DecimalValue(SubSeq(str, 1, Len(str) - 1)) + to_digit(str[Len(str)])[1]

\* the characters 0-9
DecimalChars == { LowerHex[i] : i \in 1..10 }
\* the characters 0-9 and a-f
LowerHexChars == { LowerHex[i] : i \in 1..16 }

\* C13 -- Command-line argument format.  The command is spawned with exactly
\* four arguments, in this order: the name, the device node, the xinput id in
\* decimal (digits only, no leading zero) and "vendor:product", each side
\* exactly four lower-case hexadecimal digits, zero-padded, with one colon
\* between them; 9, 0x046d, 0xc52b give "9" and "046d:c52b".
C13_ArgumentFormat ==
    cmd_pc = "spawned" =>
        LET keyboard == cmd_keyboard[1]
            id == cmd_args[3]
            ids == cmd_args[4]
        IN  /\ Len(cmd_args) = 4
            /\ cmd_args[1] = keyboard.name
            /\ cmd_args[2] = keyboard.device_node
            /\ Len(id) >= 1
            /\ \A i \in DOMAIN id : id[i] \in DecimalChars
            /\ Len(id) > 1 => id[1] # "0"
            /\ DecimalValue(id) = keyboard.xinput_id
            /\ Len(ids) = 9
            /\ ids[5] = ":"
            /\ \A i \in {1, 2, 3, 4, 6, 7, 8, 9} : ids[i] \in LowerHexChars
            /\ from_str_radix(SubSeq(ids, 1, 4)) = Ok(keyboard.vendor_id)
            /\ from_str_radix(SubSeq(ids, 6, 9)) = Ok(keyboard.product_id)
            /\ keyboard.xinput_id = 9 /\ keyboard.vendor_id = 1133 /\ keyboard.product_id = 50475
                 => /\ id = << "9" >>
                    /\ ids = << "0", "4", "6", "d", ":", "c", "5", "2", "b" >>

\* the command was spawned for a record whose ids need padding: 10, 0x000a, 0x00ff
C13_Witness ==
    /\ cmd_pc = "spawned"
    /\ cmd_keyboard[1].xinput_id = 10
    /\ cmd_keyboard[1].vendor_id = 10
    /\ cmd_keyboard[1].product_id = 255
    /\ cmd_args[3] = << "1", "0" >>
    /\ cmd_args[4] = << "0", "0", "0", "a", ":", "0", "0", "f", "f" >>

\* the call is over
XpropDone == xprop_pc \in {"returned", "panicked"}

\* the second read was issued: offset 0, and a length that covers the bytes the
\* first reply returned and those it reported as remaining
SecondReadIssued ==
    /\ Len(xprop_requests) = 2
    /\ xprop_requests[2].offset = 0
    /\ 4 * xprop_requests[2].length >= 4 * xprop_first[1].length + xprop_first[1].bytes_after

\* C14 (as claimed) -- Two-phase property read.  Whatever the first reply's
\* length, bytes_after and item format: when it reports bytes_after # 0 the
\* function issues a second read from offset 0 sized to the full reported
\* length and returns the string of the second reply, not the truncated or
\* empty content of the first.
C14_TwoPhaseRead ==
    XpropDone /\ xprop_first[1].bytes_after # 0
        => /\ SecondReadIssued
           /\ xprop_pc = "returned" => xprop_result = Some(xprop_reply[1].items.data)

\* C14 (amended) -- When the first reply has a length other than 0 and reports
\* bytes_after # 0, the function issues one second read from offset 0 with
\* length = length + bytes_after of the first reply, and ends as the second
\* reply decodes: with its string when its items are 8-bit and valid UTF-8 --
\* the whole property when it did not change between the reads -- and with a
\* panic otherwise.  A first reply of length 0 makes the function return the
\* empty string after one read, whatever its bytes_after; a first reply with
\* bytes_after = 0 is decoded itself.
C14_TwoPhaseNonEmpty ==
    XpropDone =>
        LET first == xprop_first[1]
            reply == xprop_reply[1]
            outcome == IF xprop_pc = "returned" THEN Ok(xprop_result[1])
                       ELSE Err("panic")
        IN  /\ (first.length # 0 /\ first.bytes_after # 0) =>
                 /\ SecondReadIssued
                 /\ xprop_requests[2].length = first.length + first.bytes_after
                 /\ outcome.ok = Decoded(reply).ok
                 /\ outcome.ok => outcome.value = reply.items.data
                 /\ (outcome.ok /\ reply.items.data.of = first.items.data.of) =>
                         /\ reply.bytes_after = 0
                         /\ outcome.value.bytes = 4 * INITIAL_BUFFER + first.bytes_after
            /\ first.length = 0 =>
                 /\ Len(xprop_requests) = 1
                 /\ outcome = Ok(EmptyString)
            /\ (first.length # 0 /\ first.bytes_after = 0) =>
                 /\ Len(xprop_requests) = 1
                 /\ reply = first
                 /\ outcome.ok = Decoded(first).ok
                 /\ outcome.ok => outcome.value = first.items.data

\* a property of 1025 bytes was returned whole by the second read
C14_Witness ==
    /\ xprop_pc = "returned"
    /\ Len(xprop_requests) = 2
    /\ xprop_first[1].length = INITIAL_BUFFER
    /\ xprop_first[1].bytes_after = 1
    /\ xprop_result[1].bytes = 1025

\* C15 -- Startup ordering.  The first update() pass runs before any event is
\* read, whether or not one is pending, and the task first waits on the event
\* stream only when that pass is complete and init_keyboard has been called
\* once for every keyboard the pass found in both sources.
C15_StartupOrdering ==
    /\ passes = 0 => pc \in {"start", "update"} /\ triggers = 0 /\ ends = 0
    /\ pc \in {"dispatch", "child", "wait"} => passes >= 1
    /\ passes = 1 /\ pc \in {"dispatch", "child", "wait"} => triggers = 0 /\ ends = 0
    /\ passes = 1 /\ pc = "wait"
         => /\ added_keyboards = << >>
            /\ children = {}
            /\ last_added = SeenInBoth
            /\ \A n \in SeenInBoth : inits[n] = 1 /\ n \in Keys(known_keyboards)

\* the task waits for the first time, two keyboards attached at startup have
\* been dispatched, and no event has been read
C15_Witness ==
    /\ passes = 1
    /\ pc = "wait"
    /\ triggers = 0
    /\ SeenInBoth = {NodeA, NodeB}
    /\ inits[NodeA] = 1
    /\ inits[NodeB] = 1

\* C16 -- Removal-only change.  A pass after the first, all of whose merged
\* device_nodes are known already -- so every pass woken by the Remove event of
\* a detach -- returns no added record and lets the task wait again without a
\* command spawned; KnownSet loses the device_nodes no longer merged and
\* nothing else, and the records that stay are unchanged.
C16_RemovalOnly ==
    [][ /\ (IsPass /\ passes > 0 /\ (Keys(xserver) \cap Keys(udevdb)) \subseteq Keys(known_keyboards))
           => /\ added_keyboards' = << >>
              /\ last_added' = {}
              /\ pc' = "wait"
              /\ children' = {}
              /\ inits' = [n \in Nodes |-> IF InBoth(n) THEN inits[n] ELSE 0]
              /\ Keys(known_keyboards') = Keys(known_keyboards) \cap Keys(xserver) \cap Keys(udevdb)
              /\ \A n \in Keys(known_keyboards') : known_keyboards'[n] = known_keyboards[n]
        /\ \A n \in Nodes : IsInit(n) => n \in last_added ]_vars

\* of two known keyboards one was detached; the pass its Remove event
\* triggered dropped it from KnownSet and returned nothing
C16_Witness ==
    /\ passes = 2
    /\ triggers = 1
    /\ pc = "wait"
    /\ last_added = {}
    /\ forgotten = {NodeB}
    /\ NodeB \notin Keys(udevdb)
    /\ Keys(known_keyboards) = {NodeA}
    /\ inits[NodeA] = 1

\* C17 -- Identity is the device_node alone.  A device_node merged by two
\* passes in a row is not returned in added by the second pass and
\* init_keyboard is not called for it again, also when the name, xinput_id,
\* vendor_id or product_id its sources list differ between the two passes.
C17_NodeIdentity ==
    [][ /\ IsPass /\ passes > 0
          => \A n \in SeenInBoth :
                InBoth(n)
                  => /\ n \notin last_added'
                     /\ n \notin NodesOf(added_keyboards')
                     /\ inits'[n] = inits[n]
        /\ \A n \in Nodes : IsInit(n) => n \in last_added ]_vars

\* a keyboard merged by two passes in a row, relisted between them with
\* another name, xinput_id, vendor_id and product_id, and dispatched once
C17_Witness ==
    /\ passes = 2
    /\ pc = "wait"
    /\ NodeA \in SeenInBoth
    /\ NodeA \in Keys(known_keyboards)
    /\ last_added = {}
    /\ inits[NodeA] = 1
    /\ known_keyboards[NodeA].name # xinput_keyboards[NodeA].name
    /\ known_keyboards[NodeA].xinput_id # xinput_keyboards[NodeA].xinput_id
    /\ known_keyboards[NodeA].vendor_id # udev_keyboards[NodeA].vendor_id
    /\ known_keyboards[NodeA].product_id # udev_keyboards[NodeA].product_id

\* C18 -- SIGINT shutdown.  Once a SIGINT has been delivered main returns,
\* whatever the loop is doing and whether or not a spawned command ever exits;
\* after the return no step of the loop is taken (neither the command in
\* flight nor the rest of the batch is waited for); and the interrupt is sent
\* on the one-shot channel at most once however many SIGINTs are delivered.
C18_SigintShutdown ==
    /\ [](sends <= 1)
    /\ [](sends = 1 <=> interrupt_rx = "sent")
    /\ [][main_pc = "returned" => UNCHANGED << loop_vars, main_vars >>]_vars
    /\ (sigints > 0) ~> (main_pc = "returned")

\* main has returned after two SIGINTs and one send, with a command in flight
\* and another record of the batch not yet dispatched
C18_Witness ==
    /\ main_pc = "returned"
    /\ sigints = 2
    /\ sends = 1
    /\ pc = "child"
    /\ children # {}
    /\ added_keyboards # << >>

\* C20 -- Unconfigured start-up.  When the configuration has no init command,
\* no monitor socket is created, no update() pass runs, no command is spawned,
\* and main returns without a SIGINT being needed: the task select! polls is
\* complete already.
C20_UnconfiguredStartup ==
    /\ [](config = ConfigOk(None)
            => /\ ~monitoring
               /\ pc = "start"
               /\ passes = 0
               /\ children = {}
               /\ \A n \in Nodes : inits[n] = 0)
    /\ [][config = ConfigOk(None) /\ main_pc = "select" /\ sigints = 0
            => main_pc' = "returned" \/ sigints' = 1]_vars
    /\ (config = ConfigOk(None)) ~> (main_pc = "returned")

\* main has returned with no init command configured, two keyboards attached
\* and no SIGINT delivered
C20_Witness ==
    /\ config = ConfigOk(None)
    /\ main_pc = "returned"
    /\ sigints = 0
    /\ Keys(xserver) \cap Keys(udevdb) = {NodeA, NodeB}
    /\ passes = 0

====
